---- MODULE Spec2Model ----
(***************************************************************************)
(* AllocBox of french-press (src/alloc/mod.rs): a tri-colour mark-and-     *)
(* sweep heap.  Three hash maps (white_set, grey_set, black_set) from      *)
(* UniqueBinding to Alloc<JsPtrEnum>.  A map is a function whose domain is *)
(* its key set; an Option is NoPtr or the value.                           *)
(***************************************************************************)
EXTENDS Integers, FiniteSets, Sequences, TLC

VARIABLES white_set, grey_set, black_set, call, result, phase, roots0, heap0, ops

heap == <<white_set, grey_set, black_set>>
vars == <<white_set, grey_set, black_set, call, result, phase, roots0, heap0, ops>>

\* ------------------------------------------------------------------ bounds
NumBindings == 2
MaxOps == 4
NumCycleBindings == 3

\* ------------------------------------------------------------------ values
\* UniqueBinding: opaque, compared by equality only.
Bindings == 1 .. NumBindings
CycleBindings == 1 .. NumCycleBindings

\* JsPtrEnum: JsStr(text) is a leaf, JsObj carries the set get_children() returns.
JsStr(text) == [kind |-> "JsStr", text |-> text, children |-> {}]
JsObj(children) == [kind |-> "JsObj", text |-> "", children |-> children]
NoPtr == [kind |-> "None", text |-> "", children |-> {}]
Texts == {"x"}
\* the values the operations are called with: a string, and the objects with one
\* child and with every binding of B as children
PtrsOver(B) == {JsStr(t) : t \in Texts} \cup {JsObj({c}) : c \in B} \cup {JsObj(B)}
Ptrs == PtrsOver(Bindings)

\* ------------------------------------------------------------------ HashMap
EmptyMap == [k \in {} |-> NoPtr]
Keys(m) == DOMAIN m
\* HashMap::get / remove's returned Option
MapGet(m, k) == IF k \in DOMAIN m THEN m[k] ELSE NoPtr
\* HashMap::insert: an occupied key has its value replaced
MapInsert(m, k, v) == [x \in (DOMAIN m) \cup {k} |-> IF x = k THEN v ELSE m[x]]
\* HashMap::remove
MapRemove(m, k) == [x \in (DOMAIN m) \ {k} |-> m[x]]
\* Option::or
OptOr(a, b) == IF a # NoPtr THEN a ELSE b
\* ------------------------------------------------------------------ AllocBox
Heap(w, g, b) == [white |-> w, grey |-> g, black |-> b]

\* AllocBox::len
len == Cardinality(Keys(black_set)) + Cardinality(Keys(grey_set)) + Cardinality(Keys(white_set))
is_empty == len = 0

\* AllocBox::find_id: white, then grey, then black
find_id_in(w, g, b, bnd) == OptOr(MapGet(w, bnd), OptOr(MapGet(g, bnd), MapGet(b, bnd)))
find_id(bnd) == find_id_in(white_set, grey_set, black_set, bnd)

\* AllocBox::get_ptr_children
get_ptr_children(ptr) == IF ptr.kind = "JsObj" THEN ptr.children ELSE {}

\* The loops below run over a HashSet or a drained HashMap, whose iteration order
\* is unspecified.  A loop is modelled by the set of states it can end in over every
\* order: a set of pairs <<state, members still to visit>> is advanced one iteration
\* at a time, each pair by every member it may visit next.

\* the body of the loop of AllocBox::grey_children
grey_child(h, child_id) ==
    IF child_id \in Keys(h.white)
    THEN Heap(MapRemove(h.white, child_id), MapInsert(h.grey, child_id, h.white[child_id]), h.black)
    ELSE h

RECURSIVE grey_children_loop(_)
grey_children_loop(todo) ==
    IF \A x \in todo : x[2] = {} THEN {x[1] : x \in todo}
    ELSE grey_children_loop(UNION {{<<grey_child(x[1], c), x[2] \ {c}>> : c \in x[2]} : x \in todo})

\* AllocBox::grey_children
grey_children(h, child_ids) == grey_children_loop({<<h, child_ids>>})

\* faulty variant: a root is blackened and its children are left as they are
mark_root_no_children(h, mark) ==
    IF mark \in Keys(h.white)
    THEN {Heap(MapRemove(h.white, mark), h.grey, MapInsert(h.black, mark, h.white[mark]))}
    ELSE IF mark \in Keys(h.grey)
    THEN {Heap(h.white, MapRemove(h.grey, mark), MapInsert(h.black, mark, h.grey[mark]))}
    ELSE {h}

\* faulty variant: the branch for a root found in grey_set is missing
mark_root_white_only(h, mark) ==
    IF mark \in Keys(h.white)
    THEN grey_children(Heap(MapRemove(h.white, mark), h.grey, MapInsert(h.black, mark, h.white[mark])),
                       get_ptr_children(h.white[mark]))
    ELSE {h}

\* the body of the loop of AllocBox::mark_roots
mark_root(h, mark) ==
    IF mark \in Keys(h.white)
    THEN grey_children(Heap(MapRemove(h.white, mark), h.grey, MapInsert(h.black, mark, h.white[mark])),
                       get_ptr_children(h.white[mark]))
    ELSE IF mark \in Keys(h.grey)
    THEN grey_children(Heap(h.white, MapRemove(h.grey, mark), MapInsert(h.black, mark, h.grey[mark])),
                       get_ptr_children(h.grey[mark]))
    ELSE {h}

RECURSIVE mark_roots_loop(_)
mark_roots_loop(todo) ==
    IF \A x \in todo : x[2] = {} THEN {x[1] : x \in todo}
    ELSE mark_roots_loop(UNION {UNION {{<<h1, x[2] \ {m}>> : h1 \in mark_root(x[1], m)} : m \in x[2]} : x \in todo})

\* AllocBox::mark_roots
mark_roots(h, marks) == mark_roots_loop({<<h, marks>>})

\* faulty variant: mark_ptrs blackens the grey entries and shades no child
shade_child_skip(st, child_id) == st

\* faulty variant: a white child goes straight to black_set, its children unscanned
shade_child_black(st, child_id) ==
    IF child_id \in Keys(st[1])
    THEN <<MapRemove(st[1], child_id), st[2], MapInsert(st[3], child_id, st[1][child_id])>>
    ELSE st

\* faulty variant: a white child is copied to new_grey_set and stays in white_set
shade_child_copy(st, child_id) ==
    IF child_id \in Keys(st[1])
    THEN <<st[1], MapInsert(st[2], child_id, st[1][child_id]), st[3]>>
    ELSE st

\* the inner loop of AllocBox::mark_ptrs; st is <<white_set, new_grey_set, black_set>>
shade_child(st, child_id) ==
    IF child_id \in Keys(st[1])
    THEN <<MapRemove(st[1], child_id), MapInsert(st[2], child_id, st[1][child_id]), st[3]>>
    ELSE st

RECURSIVE shade_children_loop(_)
shade_children_loop(todo) ==
    IF \A x \in todo : x[2] = {} THEN {x[1] : x \in todo}
    ELSE shade_children_loop(UNION {{<<shade_child(x[1], c), x[2] \ {c}>> : c \in x[2]} : x \in todo})

shade_children(st, child_ids) == shade_children_loop({<<st, child_ids>>})

\* one iteration of the outer loop of AllocBox::mark_ptrs, for the drained entry bnd
drain_one(st, old_grey, bnd) ==
    shade_children(<<st[1], st[2], MapInsert(st[3], bnd, old_grey[bnd])>>, get_ptr_children(old_grey[bnd]))

\* the outer loop of AllocBox::mark_ptrs over the drained grey_set
RECURSIVE drain_grey(_, _)
drain_grey(todo, old_grey) ==
    IF \A x \in todo : x[2] = {} THEN {x[1] : x \in todo}
    ELSE drain_grey(UNION {UNION {{<<st1, x[2] \ {bnd}>> : st1 \in drain_one(x[1], old_grey, bnd)} : bnd \in x[2]} : x \in todo},
                    old_grey)

\* faulty variant: black_set is rebuilt from the drained entries alone
mark_ptrs_new_black(h) ==
    {Heap(st[1], st[2], st[3]) : st \in drain_grey({<<<<h.white, EmptyMap, EmptyMap>>, Keys(h.grey)>>}, h.grey)}

\* AllocBox::mark_ptrs
mark_ptrs(h) ==
    {Heap(st[1], st[2], st[3]) : st \in drain_grey({<<<<h.white, EmptyMap, h.black>>, Keys(h.grey)>>}, h.grey)}

\* faulty variant: the black entries are added to white_set, the old white entries stay
sweep_ptrs_keep_white(h) == Heap(h.black @@ h.white, EmptyMap, EmptyMap)
\* faulty variant: grey_set is not cleared
sweep_ptrs_keep_grey(h) == Heap(h.black, h.grey, EmptyMap)
\* faulty variant: black_set is cleared and not recycled
sweep_ptrs_drop_black(h) == Heap(h.white, EmptyMap, EmptyMap)

\* faulty variant: the survivors stay in black_set and are not recycled to white_set
sweep_ptrs_stay_black(h) == Heap(EmptyMap, EmptyMap, h.black)

\* AllocBox::sweep_ptrs
sweep_ptrs(h) == Heap(h.black, EmptyMap, EmptyMap)

\* faulty variant: or_else, the later removes run only when the earlier ones found nothing
remove_binding_lazy(h, binding) ==
    IF binding \in Keys(h.white) THEN Heap(MapRemove(h.white, binding), h.grey, h.black)
    ELSE IF binding \in Keys(h.grey) THEN Heap(h.white, MapRemove(h.grey, binding), h.black)
    ELSE Heap(h.white, h.grey, MapRemove(h.black, binding))

\* AllocBox::remove_binding: Option::or evaluates its argument, so all three removes run
remove_binding(h, binding) == Heap(MapRemove(h.white, binding), MapRemove(h.grey, binding), MapRemove(h.black, binding))
remove_binding_ret(h, binding) == OptOr(MapGet(h.white, binding), OptOr(MapGet(h.grey, binding), MapGet(h.black, binding)))

\* AllocBox::realloc
realloc(h, old, new) ==
    LET ptr == remove_binding_ret(h, old)
        h1 == remove_binding(h, old)
    IN IF ptr # NoPtr
       THEN [heap |-> Heap(MapInsert(h1.white, new, ptr), h1.grey, h1.black), ret |-> "Ok"]
       ELSE [heap |-> h1, ret |-> "HeapUpdate"]

\* faulty variant: the new entry is stored in grey_set
alloc_into_grey(h, binding, ptr) ==
    [heap |-> Heap(h.white, MapInsert(h.grey, binding, ptr), h.black),
     ret |-> IF binding \notin Keys(h.white) THEN "Ok" ELSE "Alloc"]

\* faulty variant: the new entry is stored in black_set
alloc_into_black(h, binding, ptr) ==
    [heap |-> Heap(h.white, h.grey, MapInsert(h.black, binding, ptr)),
     ret |-> IF binding \notin Keys(h.white) THEN "Ok" ELSE "Alloc"]

\* AllocBox::alloc: HashMap::insert stores the value also when the key is occupied
alloc(h, binding, ptr) ==
    [heap |-> Heap(MapInsert(h.white, binding, ptr), h.grey, h.black),
     ret |-> IF binding \notin Keys(h.white) THEN "Ok" ELSE "Alloc"]

\* faulty variant: the maps are searched black first
find_id_mut_black_first(h, bnd) ==
    IF bnd \in Keys(h.black) THEN "black"
    ELSE IF bnd \in Keys(h.grey) THEN "grey"
    ELSE IF bnd \in Keys(h.white) THEN "white"
    ELSE "vacant"

\* AllocBox::find_id_mut: the map whose entry is handed back
find_id_mut(h, bnd) ==
    IF bnd \in Keys(h.white) THEN "white"
    ELSE IF bnd \in Keys(h.grey) THEN "grey"
    ELSE IF bnd \in Keys(h.black) THEN "black"
    ELSE "vacant"

\* faulty variant: a vacant entry is filled (or_insert) instead of reported
update_ptr_or_insert(h, binding, ptr) ==
    LET e == find_id_mut(h, binding)
    IN CASE e = "white" -> [heap |-> Heap(MapInsert(h.white, binding, ptr), h.grey, h.black), ret |-> "Ok"]
         [] e = "grey" -> [heap |-> Heap(h.white, MapInsert(h.grey, binding, ptr), h.black), ret |-> "Ok"]
         [] OTHER -> [heap |-> Heap(h.white, h.grey, MapInsert(h.black, binding, ptr)), ret |-> "Ok"]

\* AllocBox::update_ptr
update_ptr(h, binding, ptr) ==
    LET e == find_id_mut(h, binding)
    IN CASE e = "white" -> [heap |-> Heap(MapInsert(h.white, binding, ptr), h.grey, h.black), ret |-> "Ok"]
         [] e = "grey" -> [heap |-> Heap(h.white, MapInsert(h.grey, binding, ptr), h.black), ret |-> "Ok"]
         [] e = "black" -> [heap |-> Heap(h.white, h.grey, MapInsert(h.black, binding, ptr)), ret |-> "Ok"]
         [] OTHER -> [heap |-> h, ret |-> "HeapUpdate"]

\* ------------------------------------------------------------------ state machine
Now == Heap(white_set, grey_set, black_set)
Store(h) == white_set' = h.white /\ grey_set' = h.grey /\ black_set' = h.black
\* the last call and its first binding argument; what it returned, with the binding
\* an Err(GcError::Alloc(binding)) carries.  A set holds the binding, if there is one.
Call(op, binding) == [op |-> op, binding |-> binding]
Ret(tag, binding) == [tag |-> tag, binding |-> binding]

\* AllocBox::new
New ==
    /\ white_set = EmptyMap /\ grey_set = EmptyMap /\ black_set = EmptyMap
    /\ call = Call("new", {})
    /\ result = Ret("Unit", {})

DoAlloc(binding, ptr) ==
    LET r == alloc(Now, binding, ptr)
    IN /\ Store(r.heap)
       /\ call' = Call("alloc", {binding})
       /\ result' = IF r.ret = "Ok" THEN Ret("Ok", {}) ELSE Ret("Alloc", {binding})

DoUpdate(binding, ptr) ==
    LET r == update_ptr(Now, binding, ptr)
    IN /\ Store(r.heap)
       /\ call' = Call("update_ptr", {binding})
       /\ result' = Ret(r.ret, {})

DoRealloc(old, new) ==
    LET r == realloc(Now, old, new)
    IN /\ Store(r.heap)
       /\ call' = Call("realloc", {old})
       /\ result' = Ret(r.ret, {})

DoMarkRoots(marks) ==
    /\ \E h \in mark_roots(Now, marks) : Store(h)
    /\ call' = Call("mark_roots", {})
    /\ result' = Ret("Unit", {})

DoMarkPtrs ==
    /\ \E h \in mark_ptrs(Now) : Store(h)
    /\ call' = Call("mark_ptrs", {})
    /\ result' = Ret("Unit", {})

DoSweep ==
    /\ Store(sweep_ptrs(Now))
    /\ call' = Call("sweep_ptrs", {})
    /\ result' = Ret("Unit", {})

\* ---- Spec: every operation, with arbitrary arguments, from a new AllocBox
Init ==
    /\ New
    /\ phase = "any" /\ roots0 = {} /\ heap0 = EmptyMap /\ ops = 0

Tick == ops < MaxOps /\ ops' = ops + 1 /\ UNCHANGED <<phase, roots0, heap0>>

Alloc == \E b \in Bindings, p \in Ptrs : DoAlloc(b, p) /\ Tick
Update == \E b \in Bindings, p \in Ptrs : DoUpdate(b, p) /\ Tick
Realloc == \E old \in Bindings, new \in Bindings : DoRealloc(old, new) /\ Tick
MarkRoots == \E marks \in SUBSET Bindings : DoMarkRoots(marks) /\ Tick
MarkPtrs == DoMarkPtrs /\ Tick
Sweep == DoSweep /\ Tick

Next == Alloc \/ Update \/ Realloc \/ MarkRoots \/ MarkPtrs \/ Sweep

Spec == Init /\ [][Next]_vars

\* ---- SpecCycle: the caller's collection cycle.  Allocations build a heap, then
\* mark_roots, mark_ptrs until grey_set is empty, then sweep_ptrs.  roots0 and heap0
\* record the root set and the white_set the cycle started with; they are forgotten
\* when the caller goes back to allocating.
CycleInit ==
    /\ New
    /\ phase = "alloc" /\ roots0 = {} /\ heap0 = EmptyMap /\ ops = 0

CycleAlloc ==
    /\ phase = "alloc"
    /\ \E b \in CycleBindings, p \in PtrsOver(CycleBindings) : DoAlloc(b, p)
    /\ UNCHANGED <<phase, roots0, heap0, ops>>

CycleMarkRoots ==
    /\ phase = "alloc"
    /\ \E marks \in SUBSET CycleBindings : DoMarkRoots(marks) /\ roots0' = marks
    /\ phase' = "mark" /\ heap0' = white_set /\ UNCHANGED ops

CycleMarkPtrs ==
    /\ phase = "mark"
    /\ DoMarkPtrs
    /\ UNCHANGED <<phase, roots0, heap0, ops>>

CycleSweep ==
    /\ phase = "mark" /\ grey_set = EmptyMap
    /\ DoSweep
    /\ phase' = "swept" /\ UNCHANGED <<roots0, heap0, ops>>

\* the cycle is over: the caller allocates again and starts the next one
CycleDone ==
    /\ phase = "swept"
    /\ phase' = "alloc" /\ roots0' = {} /\ heap0' = EmptyMap
    /\ UNCHANGED <<white_set, grey_set, black_set, call, result, ops>>

CycleNext == CycleAlloc \/ CycleMarkRoots \/ CycleMarkPtrs \/ CycleSweep \/ CycleDone

SpecCycle == CycleInit /\ [][CycleNext]_vars

\* ---- SpecGrow: the heap keeps growing while a mark phase is in progress.
\* Allocations build a heap; from the first mark_roots on, mark_roots, mark_ptrs
\* and alloc interleave freely.
GrowAlloc ==
    /\ phase \in {"alloc", "mark"}
    /\ \E b \in Bindings, p \in Ptrs : DoAlloc(b, p)
    /\ UNCHANGED <<phase, roots0, heap0, ops>>

GrowMarkRoots ==
    /\ phase \in {"alloc", "mark"}
    /\ \E marks \in SUBSET Bindings : DoMarkRoots(marks)
    /\ phase' = "mark" /\ UNCHANGED <<roots0, heap0, ops>>

GrowMarkPtrs ==
    /\ phase = "mark"
    /\ DoMarkPtrs
    /\ UNCHANGED <<phase, roots0, heap0, ops>>

GrowNext == GrowAlloc \/ GrowMarkRoots \/ GrowMarkPtrs

SpecGrow == CycleInit /\ [][GrowNext]_vars

\* ---- SpecMark: marking at length.  The caller allocates fresh bindings, the least
\* unused one first, with any values; from the first mark_roots on, mark_roots with
\* any root set and runs of mark_ptrs follow one another.  ops counts the consecutive
\* calls of mark_ptrs of the run in progress and heap0 is the white_set the run
\* started with; the caller goes on calling mark_ptrs while grey_set holds an entry,
\* and a run is given up once it has made one call more than heap0 has keys.
MarkAlloc ==
    /\ phase = "alloc"
    /\ \E b \in CycleBindings \ Keys(white_set) :
          /\ \A c \in CycleBindings \ Keys(white_set) : b <= c
          /\ \E p \in PtrsOver(CycleBindings) : DoAlloc(b, p)
    /\ UNCHANGED <<phase, roots0, heap0, ops>>

StepMarkRoots ==
    /\ phase \in {"alloc", "mark"}
    /\ \E marks \in SUBSET CycleBindings : DoMarkRoots(marks)
    /\ phase' = "mark" /\ heap0' = EmptyMap /\ ops' = 0 /\ UNCHANGED roots0

StepMarkPtrs ==
    /\ phase = "mark"
    /\ ops = 0 \/ (grey_set # EmptyMap /\ ops <= Cardinality(Keys(heap0)))
    /\ DoMarkPtrs
    /\ ops' = ops + 1
    /\ heap0' = (IF ops = 0 THEN white_set ELSE heap0)
    /\ UNCHANGED <<phase, roots0>>

MarkNext == MarkAlloc \/ StepMarkRoots \/ StepMarkPtrs

SpecMark == CycleInit /\ [][MarkNext]_vars

\* ---- SpecBarrier: a mutator at work during a mark phase.  Allocations build a
\* heap, mark_roots blackens some roots and mark_ptrs may follow; then the caller
\* allocates a fresh string, stores a reference to it in a black object with
\* update_ptr, and sweeps.  heap0 records the entry allocated during the mark phase
\* and roots0 the object updated.
BarrierMarkRoots ==
    /\ phase = "alloc"
    /\ \E marks \in SUBSET CycleBindings : DoMarkRoots(marks)
    /\ phase' = "mark" /\ UNCHANGED <<roots0, heap0, ops>>

BarrierMarkPtrs ==
    /\ phase = "mark"
    /\ DoMarkPtrs
    /\ UNCHANGED <<phase, roots0, heap0, ops>>

BarrierAlloc ==
    /\ phase = "mark" /\ black_set # EmptyMap
    /\ \E c \in CycleBindings \ (Keys(white_set) \cup Keys(grey_set) \cup Keys(black_set)) :
        \E t \in Texts :
          DoAlloc(c, JsStr(t)) /\ heap0' = MapInsert(EmptyMap, c, JsStr(t))
    /\ phase' = "grown" /\ UNCHANGED <<roots0, ops>>

BarrierUpdate ==
    /\ phase = "grown"
    /\ \E o \in Keys(black_set) : \E p \in PtrsOver(CycleBindings) :
          /\ Keys(heap0) \subseteq get_ptr_children(p)
          /\ DoUpdate(o, p) /\ roots0' = {o}
    /\ phase' = "updated" /\ UNCHANGED <<heap0, ops>>

BarrierSweep ==
    /\ phase = "updated"
    /\ DoSweep
    /\ phase' = "swept" /\ UNCHANGED <<roots0, heap0, ops>>

BarrierNext == MarkAlloc \/ BarrierMarkRoots \/ BarrierMarkPtrs \/ BarrierAlloc \/ BarrierUpdate \/ BarrierSweep

SpecBarrier == CycleInit /\ [][BarrierNext]_vars

\* ---- SpecSweeps: every operation with arbitrary arguments, as in Spec, with a
\* record of the collection history.  heap0 is what the last sweep_ptrs left in
\* white_set, roots0 the bindings mark_roots or mark_ptrs have inserted into black_set
\* since the last sweep_ptrs.  phase is "mark" when a mark call has been made since
\* the last sweep_ptrs, "swept" after a sweep_ptrs with no mark call since, and
\* "swept2" after a sweep_ptrs that followed, with no mark call between them, a
\* sweep_ptrs that left survivors.
SweepsMarkRoots ==
    /\ \E marks \in SUBSET Bindings : DoMarkRoots(marks)
    /\ ops < MaxOps /\ ops' = ops + 1
    /\ phase' = "mark" /\ roots0' = roots0 \cup (Keys(black_set') \ Keys(black_set))
    /\ UNCHANGED heap0

SweepsMarkPtrs ==
    /\ DoMarkPtrs
    /\ ops < MaxOps /\ ops' = ops + 1
    /\ phase' = "mark" /\ roots0' = roots0 \cup (Keys(black_set') \ Keys(black_set))
    /\ UNCHANGED heap0

SweepsSweep ==
    /\ DoSweep
    /\ ops < MaxOps /\ ops' = ops + 1
    /\ phase' = (IF phase = "swept" /\ heap0 # EmptyMap THEN "swept2" ELSE "swept")
    /\ roots0' = {} /\ heap0' = white_set'

SweepsNext == Alloc \/ Update \/ Realloc \/ SweepsMarkRoots \/ SweepsMarkPtrs \/ SweepsSweep

SpecSweeps == CycleInit /\ [][SweepsNext]_vars

\* ------------------------------------------------------------------ properties
LiveKeys(h) == Keys(h.white) \cup Keys(h.grey) \cup Keys(h.black)
Live == LiveKeys(Now)
Next_heap == Heap(white_set', grey_set', black_set')
lookup_next(bnd) == find_id_in(white_set', grey_set', black_set', bnd)
Disjoint(h) ==
    /\ Keys(h.white) \cap Keys(h.grey) = {}
    /\ Keys(h.white) \cap Keys(h.black) = {}
    /\ Keys(h.grey) \cap Keys(h.black) = {}
SameKeys == Keys(white_set') = Keys(white_set) /\ Keys(grey_set') = Keys(grey_set) /\ Keys(black_set') = Keys(black_set)

\* the live bindings of the heap w reachable from the members of S through children
RECURSIVE ReachFrom(_, _)
ReachFrom(S, w) ==
    LET more == S \cup {c \in Keys(w) : \E b \in S : c \in get_ptr_children(w[b])}
    IN IF more = S THEN S ELSE ReachFrom(more, w)
\* the bindings reachable from the live roots of the cycle in the heap it started with
Reach0 == ReachFrom(roots0 \cap Keys(heap0), heap0)

\* C1: no binding is a key of more than one of white_set, grey_set and black_set,
\* in every state reachable from a new AllocBox by any calls with any arguments.
C1_Disjointness == Disjoint(Now)

\* C2: in a cycle mark_roots(R), mark_ptrs until grey_set is empty, sweep_ptrs, every
\* binding reachable from a live root is black when grey_set is empty, and after the
\* sweep it is white, in no other map, and holds the value it had at the cycle's start.
C2_Soundness ==
    /\ (phase = "mark" /\ grey_set = EmptyMap) => \A b \in Reach0 : b \in Keys(black_set)
    /\ phase = "swept" =>
          \A b \in Reach0 : /\ find_id(b) = heap0[b]
                            /\ b \in Keys(white_set)
                            /\ white_set[b] = heap0[b]
                            /\ b \notin Keys(grey_set) \cup Keys(black_set)

\* a cycle has ended in which a binding two references away from the only root survived
C2_Witness ==
    /\ phase = "swept" /\ call.op = "sweep_ptrs"
    /\ \E r, m, c \in Keys(white_set) :
          /\ roots0 = {r} /\ r # m /\ m # c /\ r # c
          /\ heap0[r] = JsObj({m}) /\ heap0[m] = JsObj({c})

\* C3: in such a cycle every live binding not reachable from a live root is white when
\* grey_set is empty and absent after the sweep; the live bindings after the sweep are
\* exactly the reachable ones and len() is their number.
C3_Completeness ==
    /\ (phase = "mark" /\ grey_set = EmptyMap) =>
          \A b \in Keys(heap0) \ Reach0 : b \in Keys(white_set) /\ b \notin Keys(grey_set) \cup Keys(black_set)
    /\ phase = "swept" =>
          /\ \A b \in Keys(heap0) \ Reach0 : find_id(b) = NoPtr
          /\ Live = Reach0
          /\ len = Cardinality(Reach0)

\* a cycle has ended in which an unreachable binding was reclaimed and a reachable
\* one, not itself a root, was kept
C3_Witness ==
    /\ phase = "swept" /\ call.op = "sweep_ptrs"
    /\ Keys(heap0) \ Reach0 # {}
    /\ Reach0 \ roots0 # {}
    /\ len = Cardinality(Reach0)

\* C4: after sweep_ptrs, from any state, grey_set and black_set are empty and
\* white_set is the black_set of before the call, keys and values.
C4_PostSweep ==
    [][call'.op = "sweep_ptrs" =>
          /\ grey_set' = EmptyMap
          /\ black_set' = EmptyMap
          /\ white_set' = black_set]_vars

\* a sweep has run and kept an entry
C4_Witness == call.op = "sweep_ptrs" /\ white_set # EmptyMap /\ phase = "any"

\* C5 as stated: sweep_ptrs removes a binding only if it was white, and every binding
\* that was grey or black before the sweep is live after it.
C5_Original ==
    [][call'.op = "sweep_ptrs" =>
          /\ \A b \in Live \ LiveKeys(Next_heap) : b \in Keys(white_set)
          /\ \A b \in Keys(grey_set) \cup Keys(black_set) : lookup_next(b) # NoPtr]_vars

\* C5 amended: sweep_ptrs removes a binding only if it was white or grey and was not
\* black; every binding that was black before the sweep is live after it, and a
\* binding that was grey and not black is removed.
C5_SweepKeepsBlack ==
    [][call'.op = "sweep_ptrs" =>
          /\ \A b \in Live \ LiveKeys(Next_heap) :
                b \in Keys(white_set) \cup Keys(grey_set) /\ b \notin Keys(black_set)
          /\ \A b \in Keys(black_set) : lookup_next(b) = black_set[b]
          /\ \A b \in Keys(grey_set) \ Keys(black_set) : lookup_next(b) = NoPtr]_vars

\* a sweep has kept an object and removed a child of it: the child was not black
C5_Witness ==
    /\ call.op = "sweep_ptrs" /\ phase = "any"
    /\ \E o \in Keys(white_set) : \E c \in get_ptr_children(white_set[o]) : c # o /\ find_id(c) = NoPtr

\* C6: alloc(b, v) with b a key of white_set returns Err(Alloc(b)) and leaves the three
\* maps as they were, the value stored under b included.
C6_AllocConflict ==
    [][call'.op = "alloc" =>
        \A b \in call'.binding \cap Keys(white_set) : \A p \in Ptrs :
          DoAlloc(b, p) => (result' = Ret("Alloc", {b}) /\ UNCHANGED heap)]_vars

\* C7: update_ptr and realloc on a binding absent from the three maps return
\* Err(HeapUpdate) and leave the three maps as they were.
C7_UpdateAbsent ==
    [][/\ call'.op = "update_ptr" =>
             \A b \in call'.binding \ Live : \A p \in Ptrs :
                 DoUpdate(b, p) => (result'.tag = "HeapUpdate" /\ UNCHANGED heap)
       /\ call'.op = "realloc" =>
             \A b \in call'.binding \ Live : \A n \in Bindings :
                 DoRealloc(b, n) => (result'.tag = "HeapUpdate" /\ UNCHANGED heap)]_vars

\* an update or a relocation of an absent binding has failed on a heap that is not empty
C7_Witness ==
    /\ call.op \in {"update_ptr", "realloc"} /\ result.tag = "HeapUpdate"
    /\ call.binding # {} /\ call.binding \cap Live = {} /\ ~is_empty

\* C8: from a cycle start, under any interleaving of mark_roots, mark_ptrs and alloc,
\* no entry of black_set has a direct child that is a key of white_set.
C8_TriColour ==
    phase = "mark" =>
        \A b \in Keys(black_set) : \A c \in get_ptr_children(black_set[b]) : c \notin Keys(white_set)

\* C9: a successful update_ptr(b, v2) makes find_id(b) return v2, leaves the key sets
\* of the three maps as they were, and changes the value of no other binding.
C9_UpdateInPlace ==
    [][(call'.op = "update_ptr" /\ result'.tag = "Ok") =>
        \A b \in call'.binding : \A p \in Ptrs :
          DoUpdate(b, p) =>
              /\ lookup_next(b) = p
              /\ SameKeys
              /\ \A c \in Bindings \ {b} :
                    /\ MapGet(white_set', c) = MapGet(white_set, c)
                    /\ MapGet(grey_set', c) = MapGet(grey_set, c)
                    /\ MapGet(black_set', c) = MapGet(black_set, c)]_vars

\* a grey binding has been updated while another binding is black
C9_Witness ==
    /\ call.op = "update_ptr" /\ result.tag = "Ok"
    /\ call.binding # {} /\ call.binding \subseteq Keys(grey_set)
    /\ black_set # EmptyMap

\* C10 as stated: after a successful realloc(old, new), for every new, find_id(old) is
\* None and find_id(new) is the value stored under old before.
C10_Original ==
    [][(call'.op = "realloc" /\ result'.tag = "Ok") =>
        \A old \in call'.binding : \A new \in Bindings :
          DoRealloc(old, new) =>
              /\ lookup_next(old) = NoPtr
              /\ lookup_next(new) = find_id(old)]_vars

\* C10 amended: after a successful realloc(old, new), find_id(new) is the value stored
\* under old before, and find_id(old) is None when new differs from old.
C10_ReallocRoundTrip ==
    [][(call'.op = "realloc" /\ result'.tag = "Ok") =>
        \A old \in call'.binding : \A new \in Bindings :
          DoRealloc(old, new) =>
              /\ lookup_next(new) = find_id(old)
              /\ new # old => lookup_next(old) = NoPtr]_vars

\* a relocation has succeeded during a mark phase: the old binding is gone, white_set
\* holds the moved entry and black_set is not empty
C10_Witness ==
    /\ call.op = "realloc" /\ result.tag = "Ok"
    /\ call.binding # {} /\ \A old \in call.binding : find_id(old) = NoPtr
    /\ white_set # EmptyMap /\ black_set # EmptyMap

\* the entries of the three maps after the step, counted as AllocBox::len counts them
len_next == Cardinality(Keys(black_set')) + Cardinality(Keys(grey_set')) + Cardinality(Keys(white_set'))
\* the step leaves every entry of every binding other than b as it was
OthersKept(b) ==
    \A c \in (LiveKeys(Now) \cup LiveKeys(Next_heap)) \ {b} :
        /\ MapGet(white_set', c) = MapGet(white_set, c)
        /\ MapGet(grey_set', c) = MapGet(grey_set, c)
        /\ MapGet(black_set', c) = MapGet(black_set, c)

C12_MarkPtrsNoOp ==
    [][(call'.op = "mark_ptrs" /\ grey_set = EmptyMap) =>
            (UNCHANGED heap /\ result' = Ret("Unit", {}))]_vars

\* mark_ptrs has run on a heap that is not empty and has left black_set empty: the
\* call inserts every drained entry into black_set, so grey_set was empty before it
C12_Witness ==
    /\ call.op = "mark_ptrs" /\ phase = "any"
    /\ grey_set = EmptyMap /\ black_set = EmptyMap /\ white_set # EmptyMap

\* C13: from every reachable state and for every root set R, mark_roots(R) called a
\* second time right after the first leaves the three maps as the first call left
\* them, the roots that are absent or already black included.
C13_MarkRootsIdempotent ==
    \A R \in SUBSET Bindings :
        \A h1 \in mark_roots(Now, R) : mark_roots(h1, R) = {h1}

\* the map of the heap h, with disjoint maps, that holds b, and the value of b in h
ColourOf(h, b) ==
    IF b \in Keys(h.white) THEN "white"
    ELSE IF b \in Keys(h.grey) THEN "grey"
    ELSE IF b \in Keys(h.black) THEN "black"
    ELSE "none"
ValueIn(h, b) == find_id_in(h.white, h.grey, h.black, b)

\* what C14 says of the heap h1 that mark_roots(R) makes of the heap h
MarkRootsPost(h, R, h1) ==
    /\ Disjoint(h1)
    /\ \A b \in CycleBindings :
          /\ ValueIn(h1, b) = ValueIn(h, b)
          /\ ColourOf(h1, b) =
                (IF b \in R /\ ColourOf(h, b) \in {"white", "grey"} THEN "black"
                 ELSE IF /\ b \notin R /\ b \in Keys(h.white)
                         /\ \E r \in R : /\ ColourOf(h, r) \in {"white", "grey"}
                                          /\ b \in get_ptr_children(ValueIn(h, r))
                      THEN "grey"
                 ELSE ColourOf(h, b))

\* C14: from a state with disjoint maps, after mark_roots(R) every member of R that
\* was white or grey is black, every white binding outside R that is a direct child
\* of such a member is grey, every other binding is in the map it was in, no binding
\* is added or removed and no value changes.
C14_MarkRootsPost ==
    Disjoint(Now) =>
        \A R \in SUBSET CycleBindings :
            \A h1 \in mark_roots(Now, R) : MarkRootsPost(Now, R, h1)

\* mark_roots has run and has left a black object with a grey child next to a white
\* binding
C14_Witness ==
    /\ call.op = "mark_roots" /\ phase = "mark" /\ Disjoint(Now)
    /\ white_set # EmptyMap
    /\ \E b \in Keys(black_set) : get_ptr_children(black_set[b]) \cap Keys(grey_set) # {}

\* the white bindings that are a direct child of some grey entry
GreyChildren ==
    {b \in Keys(white_set) : \E g \in Keys(grey_set) : b \in get_ptr_children(grey_set[g])}

\* C15: from a state with disjoint maps, after mark_ptrs black_set is the old
\* black_set plus every old grey entry, grey_set is exactly the old white bindings
\* that are a direct child of an old grey entry, white_set is the old white_set without
\* them, the new grey entries are not in black_set, and no value has changed.
C15_OneGeneration ==
    [][(call'.op = "mark_ptrs" /\ Disjoint(Now)) =>
          /\ Keys(black_set') = Keys(black_set) \cup Keys(grey_set)
          /\ \A b \in Keys(black_set) : black_set'[b] = black_set[b]
          /\ \A b \in Keys(grey_set) : black_set'[b] = grey_set[b]
          /\ Keys(grey_set') = GreyChildren
          /\ \A b \in GreyChildren : grey_set'[b] = white_set[b]
          /\ Keys(white_set') = Keys(white_set) \ GreyChildren
          /\ \A b \in Keys(white_set') : white_set'[b] = white_set[b]
          /\ Keys(grey_set') \cap Keys(black_set') = {}]_vars

\* mark_ptrs has blackened a grey entry next to an older black one and has shaded a
\* child, which is grey and not black
C15_Witness ==
    /\ call.op = "mark_ptrs" /\ phase = "mark" /\ Disjoint(Now)
    /\ grey_set # EmptyMap /\ Cardinality(Keys(black_set)) >= 2

\* C16: a run of consecutive mark_ptrs calls has emptied grey_set by the time it has
\* made one call more than white_set had keys when the run started, whatever cycles
\* and self-references the children hold.
C16_MarkPtrsTerminates ==
    ops > Cardinality(Keys(heap0)) => grey_set = EmptyMap

\* a run that needed every call of the bound: grey_set still held an entry after as
\* many calls as white_set had keys, and the next call emptied it
C16_Witness ==
    /\ call.op = "mark_ptrs" /\ phase = "mark"
    /\ ops >= 2 /\ ops = Cardinality(Keys(heap0)) + 1
    /\ grey_set = EmptyMap

\* C17: after a successful realloc(old, new), whichever map held old and for every
\* new binding other than old, new is a key of white_set and of neither grey_set nor
\* black_set, and old is a key of none of the three.  (With new = old the two halves
\* of the claim contradict each other; that case is left out here.)
C17_ReallocWhite ==
    [][(call'.op = "realloc" /\ result'.tag = "Ok") =>
        \A old \in call'.binding : \A new \in Bindings \ {old} :
          DoRealloc(old, new) =>
              /\ new \in Keys(white_set')
              /\ new \notin Keys(grey_set') /\ new \notin Keys(black_set')
              /\ old \notin LiveKeys(Next_heap)]_vars

\* C18: there is an execution in which sweep_ptrs reclaims a binding reachable from
\* the marked roots.  When mark_roots has made o black, alloc(c, a string) has put c
\* into white_set and update_ptr has stored in o an object with c among its children,
\* the sweep that follows removes c (find_id(c) is None) and keeps o, in white_set,
\* with c among its children.
C18_NoWriteBarrier ==
    phase = "swept" =>
        \A o \in roots0 : \A c \in Keys(heap0) :
            /\ find_id(c) = NoPtr
            /\ o \in Keys(white_set)
            /\ c \in get_ptr_children(find_id(o))

\* the execution of C18 has happened: after the sweep the object updated during the
\* mark phase is live and the string it refers to is gone
C18_Witness ==
    /\ phase = "swept" /\ call.op = "sweep_ptrs"
    /\ \E o \in roots0 : \E c \in Keys(heap0) :
          /\ c # o /\ find_id(c) = NoPtr
          /\ o \in Keys(white_set) /\ c \in get_ptr_children(white_set[o])

C20_OrderIndependent ==
    Disjoint(Now) =>
        /\ \A R \in SUBSET CycleBindings : Cardinality(mark_roots(Now, R)) = 1
        /\ Cardinality(mark_ptrs(Now)) = 1

\* a mark call has left two grey entries, one of them referring to the other, next to
\* a black one: a root set holding both entries can be visited in two orders
C20_Witness ==
    /\ call.op \in {"mark_roots", "mark_ptrs"} /\ phase = "mark" /\ Disjoint(Now)
    /\ black_set # EmptyMap
    /\ \E a \in Keys(grey_set) : \E b \in Keys(grey_set) \ {a} : b \in get_ptr_children(grey_set[a])
====
